---- MODULE Spec2Model ----
(***************************************************************************)
(* Model of src/tittac.py: command-line Tic-Tac-Toe with a minimax         *)
(* opponent (alpha-beta pruning, functools.lru_cache memoization).         *)
(*                                                                         *)
(* A board is a function 0..8 -> {"", "X", "O"} (the Python list of nine   *)
(* strings, same indices).  check_winner's None is the string "None"; a    *)
(* move of None is the integer NoMove, outside 0..8.                       *)
(***************************************************************************)
EXTENDS Integers, Sequences, FiniteSets, TLC

VARIABLES
    pc,        \* position of play(): "marks", "first", "clear", "loop", "again", "exit"
    human,     \* play(): local human
    ai,        \* play(): local ai
    current,   \* play(): local current, "human" or "ai"
    board,     \* play(): local board
    cache,     \* the lru_cache of minimax_cached: argument tuple -> <<score, move>>
    ret,       \* the last value returned by ai_move
    fallback,  \* TRUE once the branch "if m is None" of play() was taken
    result,    \* the last value returned by check_winner to its caller
    calls,     \* the last two ai_move calls since the cache was cleared, newest first
    ncalls,    \* the number of ai_move calls since the cache was cleared
    first      \* play(): local first, "me" or "ai"

vars == <<pc, human, ai, current, board, cache, ret, fallback, result, calls, ncalls,
          first>>

None == "None"
NoMove == -1
Marks == {"X", "O"}
Cells == {""} \cup Marks
Positions == 0..8
EmptyBoard == [i \in Positions |-> ""]
EmptyCache == << >>

\* WINNING_LINES with the second diagonal mistyped as (2, 4, 5)
WINNING_LINES_typo ==
    << <<0, 1, 2>>, <<3, 4, 5>>, <<6, 7, 8>>,
       <<0, 3, 6>>, <<1, 4, 7>>, <<2, 5, 8>>,
       <<0, 4, 8>>, <<2, 4, 5>> >>

\* tittac.py:11-15
WINNING_LINES ==
    << <<0, 1, 2>>, <<3, 4, 5>>, <<6, 7, 8>>,
       <<0, 3, 6>>, <<1, 4, 7>>, <<2, 5, 8>>,
       <<0, 4, 8>>, <<2, 4, 6>> >>

\* tittac.py:28-33, the scan from line k on
RECURSIVE check_lines(_, _)
check_lines(b, k) ==
    IF k > Len(WINNING_LINES)
    THEN IF \A i \in Positions : b[i] # "" THEN "Draw" ELSE None
    ELSE LET l == WINNING_LINES[k]
         IN  IF b[l[1]] # "" /\ b[l[1]] = b[l[2]] /\ b[l[2]] = b[l[3]]
             THEN b[l[1]]
             ELSE check_lines(b, k + 1)

\* tittac.py:27-33
check_winner(b) == check_lines(b, 1)

\* tittac.py:35-36: the empty positions in ascending order
available_moves(b) == SelectSeq(<<0, 1, 2, 3, 4, 5, 6, 7, 8>>, LAMBDA i : b[i] = "")

\* board[m] = mark
Place(b, m, mark) == [b EXCEPT ![m] = mark]

Max(a, b) == IF a >= b THEN a ELSE b
Min(a, b) == IF a <= b THEN a ELSE b

\* a cache keyed without the pruning window
CacheKey_nowindow(board_key, ai_player, human_player, maximizing, alpha, beta) ==
    <<board_key, ai_player, human_player, maximizing, 0, 0>>

\* a cache keyed without the two marks
CacheKey_nomarks(board_key, ai_player, human_player, maximizing, alpha, beta) ==
    <<board_key, "", "", maximizing, alpha, beta>>

\* the key lru_cache builds from the positional arguments of minimax_cached
CacheKey(board_key, ai_player, human_player, maximizing, alpha, beta) ==
    <<board_key, ai_player, human_player, maximizing, alpha, beta>>

RECURSIVE minimax_cached(_, _, _, _, _, _, _)
RECURSIVE max_loop(_, _, _, _, _, _, _, _, _, _, _)
RECURSIVE min_loop(_, _, _, _, _, _, _, _, _, _, _)

\* max_loop remembering the index into the move list instead of the move
max_loop_index(c, b, ai_player, human_player, moves, k, value, best_move, alpha, beta, clean) ==
    IF k > Len(moves)
    THEN [value |-> value, move |-> best_move, cache |-> c, work |-> b, clean |-> clean]
    ELSE LET m == moves[k]
             placed == Place(b, m, ai_player)
             r == minimax_cached(c, placed, ai_player, human_player, FALSE, alpha, beta)
             undone == Place(placed, m, "")
             better == r.value > value
             value2 == IF better THEN r.value ELSE value
             best2 == IF better THEN k - 1 ELSE best_move
             clean2 == clean /\ r.clean /\ undone = b
             alpha2 == Max(alpha, value2)
         IN  IF alpha2 >= beta
             THEN [value |-> value2, move |-> best2, cache |-> r.cache,
                   work |-> undone, clean |-> clean2]
             ELSE max_loop(r.cache, undone, ai_player, human_player, moves,
                          k + 1, value2, best2, alpha2, beta, clean2)

\* max_loop comparing with >= : a later move of equal score replaces the earlier
max_loop_last(c, b, ai_player, human_player, moves, k, value, best_move, alpha, beta, clean) ==
    IF k > Len(moves)
    THEN [value |-> value, move |-> best_move, cache |-> c, work |-> b, clean |-> clean]
    ELSE LET m == moves[k]
             placed == Place(b, m, ai_player)
             r == minimax_cached(c, placed, ai_player, human_player, FALSE, alpha, beta)
             undone == Place(placed, m, "")
             better == r.value >= value
             value2 == IF better THEN r.value ELSE value
             best2 == IF better THEN m ELSE best_move
             clean2 == clean /\ r.clean /\ undone = b
             alpha2 == Max(alpha, value2)
         IN  IF alpha2 >= beta
             THEN [value |-> value2, move |-> best2, cache |-> r.cache,
                   work |-> undone, clean |-> clean2]
             ELSE max_loop(r.cache, undone, ai_player, human_player, moves,
                          k + 1, value2, best2, alpha2, beta, clean2)

\* max_loop without the undo of line 56: the placed mark stays on the working board
max_loop_noundo(c, b, ai_player, human_player, moves, k, value, best_move, alpha, beta, clean) ==
    IF k > Len(moves)
    THEN [value |-> value, move |-> best_move, cache |-> c, work |-> b, clean |-> clean]
    ELSE LET m == moves[k]
             placed == Place(b, m, ai_player)
             r == minimax_cached(c, placed, ai_player, human_player, FALSE, alpha, beta)
             undone == placed
             better == r.value > value
             value2 == IF better THEN r.value ELSE value
             best2 == IF better THEN m ELSE best_move
             clean2 == clean /\ r.clean /\ undone = b
             alpha2 == Max(alpha, value2)
         IN  IF alpha2 >= beta
             THEN [value |-> value2, move |-> best2, cache |-> r.cache,
                   work |-> undone, clean |-> clean2]
             ELSE max_loop(r.cache, undone, ai_player, human_player, moves,
                          k + 1, value2, best2, alpha2, beta, clean2)

\* tittac.py:52-63: the maximizing loop from the k-th available move on; b is the
\* working list board, marked (line 54) and unmarked (line 56) around the call;
\* clean says that every iteration so far, here and in the calls below, ended
\* with the list as it began
max_loop(c, b, ai_player, human_player, moves, k, value, best_move, alpha, beta, clean) ==
    IF k > Len(moves)
    THEN [value |-> value, move |-> best_move, cache |-> c, work |-> b, clean |-> clean]
    ELSE LET m == moves[k]
             placed == Place(b, m, ai_player)
             r == minimax_cached(c, placed, ai_player, human_player, FALSE, alpha, beta)
             undone == Place(placed, m, "")
             better == r.value > value
             value2 == IF better THEN r.value ELSE value
             best2 == IF better THEN m ELSE best_move
             clean2 == clean /\ r.clean /\ undone = b
             alpha2 == Max(alpha, value2)
         IN  IF alpha2 >= beta
             THEN [value |-> value2, move |-> best2, cache |-> r.cache,
                   work |-> undone, clean |-> clean2]
             ELSE max_loop(r.cache, undone, ai_player, human_player, moves,
                          k + 1, value2, best2, alpha2, beta, clean2)

\* min_loop returning from inside the loop, after the first reply
min_loop_first(c, b, ai_player, human_player, moves, k, value, best_move, alpha, beta, clean) ==
    IF k > Len(moves)
    THEN [value |-> value, move |-> best_move, cache |-> c, work |-> b, clean |-> clean]
    ELSE LET m == moves[k]
             placed == Place(b, m, human_player)
             r == minimax_cached(c, placed, ai_player, human_player, TRUE, alpha, beta)
             undone == Place(placed, m, "")
             better == r.value < value
             value2 == IF better THEN r.value ELSE value
             best2 == IF better THEN m ELSE best_move
             clean2 == clean /\ r.clean /\ undone = b
         IN  [value |-> value2, move |-> best2, cache |-> r.cache,
              work |-> undone, clean |-> clean2]

\* tittac.py:65-76: the minimizing loop from the k-th available move on; b and
\* clean as in max_loop, for lines 67 and 69
min_loop(c, b, ai_player, human_player, moves, k, value, best_move, alpha, beta, clean) ==
    IF k > Len(moves)
    THEN [value |-> value, move |-> best_move, cache |-> c, work |-> b, clean |-> clean]
    ELSE LET m == moves[k]
             placed == Place(b, m, human_player)
             r == minimax_cached(c, placed, ai_player, human_player, TRUE, alpha, beta)
             undone == Place(placed, m, "")
             better == r.value < value
             value2 == IF better THEN r.value ELSE value
             best2 == IF better THEN m ELSE best_move
             clean2 == clean /\ r.clean /\ undone = b
             beta2 == Min(beta, value2)
         IN  IF alpha >= beta2
             THEN [value |-> value2, move |-> best2, cache |-> r.cache,
                   work |-> undone, clean |-> clean2]
             ELSE min_loop(r.cache, undone, ai_player, human_player, moves,
                          k + 1, value2, best2, alpha, beta2, clean2)

\* minimax_body scoring a win of the human side as +1
minimax_body_sign(c, board_key, ai_player, human_player, maximizing, alpha, beta) ==
    LET res == check_winner(board_key)
        leaf(v) == [value |-> v, move |-> NoMove, cache |-> c,
                    work |-> board_key, clean |-> TRUE]
    IN  IF res = ai_player THEN leaf(1)
        ELSE IF res = human_player THEN leaf(1)
        ELSE IF res = "Draw" THEN leaf(0)
        ELSE IF maximizing
             THEN max_loop(c, board_key, ai_player, human_player,
                           available_moves(board_key), 1, -999, NoMove, alpha, beta, TRUE)
             ELSE min_loop(c, board_key, ai_player, human_player,
                           available_moves(board_key), 1, 999, NoMove, alpha, beta, TRUE)

\* tittac.py:41-76: the body of minimax_cached, run on a cache miss; work is the
\* list board when the body returns, clean says that every loop iteration of
\* this call and of the calls below it ended with the list as it began
minimax_body(c, board_key, ai_player, human_player, maximizing, alpha, beta) ==
    LET res == check_winner(board_key)
        leaf(v) == [value |-> v, move |-> NoMove, cache |-> c,
                    work |-> board_key, clean |-> TRUE]
    IN  IF res = ai_player THEN leaf(1)
        ELSE IF res = human_player THEN leaf(-1)
        ELSE IF res = "Draw" THEN leaf(0)
        ELSE IF maximizing
             THEN max_loop(c, board_key, ai_player, human_player,
                           available_moves(board_key), 1, -999, NoMove, alpha, beta, TRUE)
             ELSE min_loop(c, board_key, ai_player, human_player,
                           available_moves(board_key), 1, 999, NoMove, alpha, beta, TRUE)

\* a cache that stores the score only: a hit returns no move
minimax_cached_valueonly(c, board_key, ai_player, human_player, maximizing, alpha, beta) ==
    LET key == CacheKey(board_key, ai_player, human_player, maximizing, alpha, beta)
    IN  IF key \in DOMAIN c
        THEN [value |-> c[key][1], move |-> NoMove, cache |-> c,
              work |-> board_key, clean |-> TRUE]
        ELSE LET r == minimax_body(c, board_key, ai_player, human_player,
                                   maximizing, alpha, beta)
             IN  [r EXCEPT !.cache = (key :> <<r.value, r.move>>) @@ r.cache]

\* tittac.py:39-40: @lru_cache(maxsize=None) around the body; on a hit the body
\* does not run and no list is made
minimax_cached(c, board_key, ai_player, human_player, maximizing, alpha, beta) ==
    LET key == CacheKey(board_key, ai_player, human_player, maximizing, alpha, beta)
    IN  IF key \in DOMAIN c
        THEN [value |-> c[key][1], move |-> c[key][2], cache |-> c,
              work |-> board_key, clean |-> TRUE]
        ELSE LET r == minimax_body(c, board_key, ai_player, human_player,
                                   maximizing, alpha, beta)
             IN  [r EXCEPT !.cache = (key :> <<r.value, r.move>>) @@ r.cache]

\* tittac.py:78-80, with the cache the call leaves behind
ai_search(c, b, ai_player, human_player) ==
    minimax_cached(c, b, ai_player, human_player, TRUE, -999, 999)

ai_move(c, b, ai_player, human_player) == ai_search(c, b, ai_player, human_player).move

Other(mark) == IF mark = "X" THEN "O" ELSE "X"

----
\* play(), tittac.py:101-158

Unset == "unset"

\* the record of one ai_move call: its arguments and what the search returned
CallRecord(b, ai_player, human_player, r) ==
    [board |-> b, ai |-> ai_player, human |-> human_player,
     score |-> r.value, move |-> r.move, work |-> r.work, clean |-> r.clean]

\* the call history after one more call
Remember(cs, rec) == IF cs = << >> THEN <<rec>> ELSE <<rec, cs[1]>>

Init ==
    /\ pc = "marks"
    /\ human = ""
    /\ ai = ""
    /\ current = ""
    /\ board = EmptyBoard
    /\ cache = EmptyCache
    /\ ret = NoMove
    /\ fallback = FALSE
    /\ result = Unset
    /\ calls = << >>
    /\ ncalls = 0
    /\ first = ""

\* tittac.py:104-111
ChooseMark(h) ==
    /\ pc = "marks"
    /\ human' = h
    /\ ai' = (IF h = "X" THEN "O" ELSE "X")
    /\ pc' = "first"
    /\ UNCHANGED <<current, board, cache, ret, fallback, result, calls, ncalls, first>>

\* tittac.py:114-124
ChooseFirst(answer) ==
    /\ pc = "first"
    /\ first' = answer
    /\ board' = EmptyBoard
    /\ current' = (IF answer = "me" THEN "human" ELSE "ai")
    /\ pc' = "clear"
    /\ UNCHANGED <<human, ai, cache, ret, fallback, result, calls, ncalls>>

\* play() without line 127: the game loop starts on the cache as it is
CacheClear_skip ==
    /\ pc = "clear"
    /\ calls' = << >>
    /\ ncalls' = 0
    /\ pc' = "loop"
    /\ UNCHANGED <<human, ai, current, board, cache, ret, fallback, result, first>>

\* tittac.py:127
CacheClear ==
    /\ pc = "clear"
    /\ cache' = EmptyCache
    /\ calls' = << >>
    /\ ncalls' = 0
    /\ pc' = "loop"
    /\ UNCHANGED <<human, ai, current, board, ret, fallback, result, first>>

\* tittac.py:130-137
GameOver ==
    /\ pc = "loop"
    /\ check_winner(board) # None
    /\ result' = check_winner(board)
    /\ pc' = "again"
    /\ UNCHANGED <<human, ai, current, board, cache, ret, fallback, calls, ncalls, first>>

\* HumanTurn in a loop that lacks the test of lines 130-137: play goes on after
\* a line is complete
HumanTurn_on(m) ==
    /\ pc = "loop"
    /\ current = "human"
    /\ board[m] = ""
    /\ result' = check_winner(board)
    /\ board' = Place(board, m, human)
    /\ current' = "ai"
    /\ UNCHANGED <<pc, human, ai, cache, ret, fallback, calls, ncalls, first>>

\* HumanTurn with a human_move that lacks the test of line 95: a taken cell
\* is accepted
HumanTurn_taken(m) ==
    /\ pc = "loop"
    /\ check_winner(board) = None
    /\ current = "human"
    /\ result' = check_winner(board)
    /\ board' = Place(board, m, human)
    /\ current' = "ai"
    /\ UNCHANGED <<pc, human, ai, cache, ret, fallback, calls, ncalls, first>>

\* tittac.py:130-131, 139-143 with human_move, 82-97
HumanTurn(m) ==
    /\ pc = "loop"
    /\ check_winner(board) = None
    /\ current = "human"
    /\ board[m] = ""
    /\ result' = check_winner(board)
    /\ board' = Place(board, m, human)
    /\ current' = "ai"
    /\ UNCHANGED <<pc, human, ai, cache, ret, fallback, calls, ncalls, first>>

\* tittac.py:130-131, 139-141 with human_move, 90-92
HumanQuit ==
    /\ pc = "loop"
    /\ check_winner(board) = None
    /\ current = "human"
    /\ result' = check_winner(board)
    /\ pc' = "exit"
    /\ UNCHANGED <<human, ai, current, board, cache, ret, fallback, calls, ncalls, first>>

\* AiTurn without line 151: the turn stays with the AI
AiTurn_stay ==
    /\ pc = "loop"
    /\ check_winner(board) = None
    /\ current = "ai"
    /\ result' = check_winner(board)
    /\ LET r == ai_search(cache, board, ai, human)
           m == IF r.move = NoMove THEN available_moves(board)[1] ELSE r.move
       IN  /\ ret' = r.move
           /\ fallback' = (fallback \/ r.move = NoMove)
           /\ cache' = r.cache
           /\ calls' = Remember(calls, CallRecord(board, ai, human, r))
           /\ board' = Place(board, m, ai)
    /\ ncalls' = ncalls + 1
    /\ UNCHANGED <<pc, human, ai, current, first>>

\* tittac.py:130-131, 144-151
AiTurn ==
    /\ pc = "loop"
    /\ check_winner(board) = None
    /\ current = "ai"
    /\ result' = check_winner(board)
    /\ LET r == ai_search(cache, board, ai, human)
           m == IF r.move = NoMove THEN available_moves(board)[1] ELSE r.move
       IN  /\ ret' = r.move
           /\ fallback' = (fallback \/ r.move = NoMove)
           /\ cache' = r.cache
           /\ calls' = Remember(calls, CallRecord(board, ai, human, r))
           /\ board' = Place(board, m, ai)
    /\ ncalls' = ncalls + 1
    /\ current' = "human"
    /\ UNCHANGED <<pc, human, ai, first>>

\* tittac.py:154-156: play() calls itself, the new frame has fresh locals
PlayAgain ==
    /\ pc = "again"
    /\ pc' = "marks"
    /\ human' = ""
    /\ ai' = ""
    /\ current' = ""
    /\ board' = EmptyBoard
    /\ ret' = NoMove
    /\ result' = Unset
    /\ first' = ""
    /\ UNCHANGED <<cache, fallback, calls, ncalls>>

\* tittac.py:157-158
Thanks ==
    /\ pc = "again"
    /\ pc' = "exit"
    /\ UNCHANGED <<human, ai, current, board, cache, ret, fallback, result, calls, ncalls, first>>

Next ==
    \/ \E h \in Marks : ChooseMark(h)
    \/ \E answer \in {"me", "ai"} : ChooseFirst(answer)
    \/ CacheClear
    \/ GameOver
    \/ \E m \in Positions : HumanTurn(m)
    \/ HumanQuit
    \/ AiTurn
    \/ PlayAgain
    \/ Thanks

Spec == Init /\ [][Next]_vars

----
\* Calls of the interface functions on any board: evaluate and ai_move as a
\* caller other than play() may use them.

MaxCalls == 3

\* ai_move(board, ai, human) on the present arguments and cache
Search ==
    /\ ncalls < MaxCalls
    /\ LET r == ai_search(cache, board, ai, human)
       IN  /\ ret' = r.move
           /\ cache' = r.cache
           /\ calls' = Remember(calls, CallRecord(board, ai, human, r))
    /\ ncalls' = ncalls + 1
    /\ UNCHANGED <<pc, human, ai, current, board, fallback, result, first>>

InitFn ==
    /\ pc = "fn"
    /\ board \in [Positions -> Cells]
    /\ ai \in Marks
    /\ human = Other(ai)
    /\ current = "ai"
    /\ cache = EmptyCache
    /\ ret = NoMove
    /\ fallback = FALSE
    /\ result = Unset
    /\ calls = << >>
    /\ ncalls = 0
    /\ first = ""

\* result = check_winner(board)
FnEvaluate ==
    /\ pc = "fn"
    /\ result = Unset
    /\ result' = check_winner(board)
    /\ UNCHANGED <<pc, human, ai, current, board, cache, ret, fallback, calls, ncalls, first>>

FnCall == pc = "fn" /\ Search

NextFn == FnEvaluate \/ FnCall

SpecFn == InitFn /\ [][NextFn]_vars

----
\* Alternating legal play by two arbitrary players, with ai_move consulted
\* for the side called ai whenever it is to move.

InitAlt ==
    /\ pc = "alt"
    /\ board = EmptyBoard
    /\ ai \in Marks
    /\ human = Other(ai)
    /\ current \in {"human", "ai"}
    /\ cache = EmptyCache
    /\ ret = NoMove
    /\ fallback = FALSE
    /\ result = Unset
    /\ calls = << >>
    /\ ncalls = 0
    /\ first = (IF current = "human" THEN "me" ELSE "ai")

\* the side to move marks an empty cell of a board that is not over; once
\* ai_move has been consulted only the human side moves freely, and play goes
\* on only while another consultation is possible
AltPlace(m) ==
    /\ pc = "alt"
    /\ check_winner(board) = None
    /\ board[m] = ""
    /\ ncalls = 0 \/ (current = "human" /\ ncalls < MaxCalls)
    /\ result' = check_winner(board)
    /\ board' = Place(board, m, IF current = "ai" THEN ai ELSE human)
    /\ current' = (IF current = "ai" THEN "human" ELSE "ai")
    /\ UNCHANGED <<pc, human, ai, cache, ret, fallback, calls, ncalls, first>>

\* ai_move is consulted for the side called ai, on any board where it is to
\* move, once or twice in a row
AltSearch ==
    /\ pc = "alt"
    /\ current = "ai"
    /\ ~(Len(calls) = 2 /\ calls[1].board = board /\ calls[2].board = board)
    /\ Search

\* the move ai_move returned for this board is played (tittac.py:146-151)
AltFollow ==
    /\ pc = "alt"
    /\ current = "ai"
    /\ calls # << >>
    /\ calls[1].board = board
    /\ ret # NoMove
    /\ ncalls < MaxCalls
    /\ result' = check_winner(board)
    /\ board' = Place(board, ret, ai)
    /\ current' = "human"
    /\ UNCHANGED <<pc, human, ai, cache, ret, fallback, calls, ncalls, first>>

NextAlt == (\E m \in Positions : AltPlace(m)) \/ AltSearch \/ AltFollow

SpecAlt == InitAlt /\ [][NextAlt]_vars

----
\* Self-play: every move is chosen by ai_move, called for the side to move
\* (as ai_player) against the other side (as human_player).

InitSelf ==
    /\ pc = "self"
    /\ board = EmptyBoard
    /\ ai \in Marks
    /\ human = Other(ai)
    /\ current = "ai"
    /\ cache = EmptyCache
    /\ ret = NoMove
    /\ fallback = FALSE
    /\ result = Unset
    /\ calls = << >>
    /\ ncalls = 0
    /\ first = "ai"

\* m = ai_move(board, mover, other); board[m] = mover; the sides swap roles.
\* board[None] = mover raises TypeError, which ends the run.
SelfMove ==
    /\ pc = "self"
    /\ check_winner(board) = None
    /\ result' = check_winner(board)
    /\ LET r == ai_search(cache, board, ai, human)
       IN  /\ ret' = r.move
           /\ cache' = r.cache
           /\ calls' = Remember(calls, CallRecord(board, ai, human, r))
           /\ IF r.move = NoMove
              THEN pc' = "error" /\ UNCHANGED <<board, ai, human>>
              ELSE /\ board' = Place(board, r.move, ai)
                   /\ ai' = human
                   /\ human' = ai
                   /\ pc' = pc
    /\ ncalls' = ncalls + 1
    /\ UNCHANGED <<current, fallback, first>>

\* minimax_cached.cache_clear() between two moves
SelfClear ==
    /\ pc = "self"
    /\ cache # EmptyCache
    /\ cache' = EmptyCache
    /\ calls' = << >>
    /\ ncalls' = 0
    /\ UNCHANGED <<pc, human, ai, current, board, ret, fallback, result, first>>

NextSelf == SelfMove \/ SelfClear

SpecSelf == InitSelf /\ [][NextSelf]_vars

----
\* ai_move called in a row by a caller other than play(), on the one
\* lru_cache of the module and with no cache_clear() between the calls: first
\* on boards of a game under one mark assignment, then on boards of a game
\* under the swapped assignment. play() itself never does this: it clears the
\* cache before every game (CacheClear).

\* the ai_move calls of the two games together
MaxReuse == 2

\* the highest cell the human opens a game on
MaxOpening == 5

\* the boards on which the first ai_move of a game is called when the human
\* plays mark h: the empty board (the AI begins) or one h on a cell the human
\* may open on
OpeningBoards(h) ==
    {EmptyBoard} \cup {Place(EmptyBoard, m, h) : m \in 0..MaxOpening}

\* the module is loaded, nothing has been searched
InitReuse ==
    /\ pc = "game1"
    /\ board = EmptyBoard
    /\ ai \in Marks
    /\ human = Other(ai)
    /\ current = "ai"
    /\ cache = EmptyCache
    /\ ret = NoMove
    /\ fallback = FALSE
    /\ result = Unset
    /\ calls = << >>
    /\ ncalls = 0
    /\ first = ""

\* ai_move(b, ai, human) on the present cache, under the mark assignment of
\* the calls before it
ReuseCall(b) ==
    /\ pc \in {"game1", "game2"}
    /\ ncalls < MaxReuse
    /\ board' = b
    /\ LET r == ai_search(cache, b, ai, human)
       IN  /\ ret' = r.move
           /\ cache' = r.cache
           /\ calls' = Remember(calls, CallRecord(b, ai, human, r))
    /\ ncalls' = ncalls + 1
    /\ UNCHANGED <<pc, human, ai, current, fallback, result, first>>

\* ai_move(b, human, ai) on the present cache: the first call of the second
\* game, with the marks of the calls before it swapped
ReuseSwapped(b) ==
    /\ pc = "game1"
    /\ ncalls >= 1
    /\ ncalls < MaxReuse
    /\ pc' = "game2"
    /\ board' = b
    /\ ai' = human
    /\ human' = ai
    /\ LET r == ai_search(cache, b, human, ai)
       IN  /\ ret' = r.move
           /\ cache' = r.cache
           /\ calls' = Remember(calls, CallRecord(b, human, ai, r))
    /\ ncalls' = ncalls + 1
    /\ UNCHANGED <<current, fallback, result, first>>

NextReuse ==
    \/ \E b \in OpeningBoards(human) : ReuseCall(b)
    \/ \E b \in OpeningBoards(ai) : ReuseSwapped(b)

SpecReuse == InitReuse /\ [][NextReuse]_vars

----
\* Reference definitions the properties are stated with

\* the eight lines of the 3x3 grid in row-major numbering, from the geometry
RefLines ==
    {{3 * r + c : c \in 0..2} : r \in 0..2}
        \cup {{3 * r + c : r \in 0..2} : c \in 0..2}
        \cup {{4 * k : k \in 0..2}, {2 * k + 2 : k \in 0..2}}

\* mark holds every cell of some line
RefHasLine(b, mark) == \E l \in RefLines : \A i \in l : b[i] = mark

RefFull(b) == \A i \in Positions : b[i] # ""

RefEmpties(b) == {i \in Positions : b[i] = ""}

\* placing mark on the empty cell p completes a line for mark
RefWins(b, mark, p) == b[p] = "" /\ RefHasLine(Place(b, p, mark), mark)

SetMax(S) == CHOOSE x \in S : \A y \in S : y <= x
SetMin(S) == CHOOSE x \in S : \A y \in S : x <= y

\* the game value for side a of board b, by exhaustive minimax without
\* pruning and without memoization; maximizing says that a is to move
RECURSIVE PlainMinimax(_, _, _, _)
PlainMinimax(b, a, h, maximizing) ==
    IF RefHasLine(b, a) THEN 1
    ELSE IF RefHasLine(b, h) THEN -1
    ELSE IF RefFull(b) THEN 0
    ELSE IF maximizing
         THEN SetMax({PlainMinimax(Place(b, p, a), a, h, FALSE) : p \in RefEmpties(b)})
         ELSE SetMin({PlainMinimax(Place(b, p, h), a, h, TRUE) : p \in RefEmpties(b)})

\* ai_move has just been called on the present board, the side ai is to move
\* and the board is not over
JustSearched ==
    /\ calls # << >>
    /\ calls[1].board = board
    /\ calls[1].ai = ai
    /\ calls[1].human = human
    /\ current = "ai"
    /\ check_winner(board) = None

----
\* C1: the AI is unbeatable: no game of play() reaches a board on which
\* check_winner returns the human's mark, whatever the marks, the starter and
\* the human's legal moves.
C1_Unbeatable == human \in Marks => check_winner(board) # human

\* a game played to its end after several AI searches
C1_Witness == pc = "again" /\ result \in {ai, "Draw"} /\ ncalls >= 3

\* C2: self-play from the empty board, every move chosen by ai_move for the
\* side to move, always ends in a draw, and the search value of the empty
\* board is 0: no side ever completes a line, the search of the empty board
\* returns 0, and as long as the board is not over the next ai_move is a legal
\* move, so the run goes on until the board is full.
C2_SelfPlayDraws ==
    /\ pc = "self"
    /\ check_winner(board) \in {None, "Draw"}
    /\ \A i \in 1..Len(calls) : calls[i].board = EmptyBoard => calls[i].score = 0
    /\ check_winner(board) = None => ai_move(cache, board, ai, human) \in RefEmpties(board)

\* the nine moves were all chosen by ai_move on one cache and the game is drawn
C2_Witness == pc = "self" /\ check_winner(board) = "Draw" /\ ncalls = 9

\* C3: the search is exact: on a board of alternating legal play with the AI
\* to move, the value of the full-window search equals the value of plain
\* exhaustive minimax, and the position after the returned move has that
\* same plain minimax value.
C3_Exact ==
    JustSearched =>
        /\ calls[1].score = PlainMinimax(board, ai, human, TRUE)
        /\ calls[1].move \in RefEmpties(board)
        /\ PlainMinimax(Place(board, calls[1].move, ai), ai, human, FALSE) = calls[1].score

\* a search on a warm cache that found a draw on a board with five empty cells
C3_Witness ==
    /\ JustSearched
    /\ ncalls >= 2
    /\ calls[1].score = 0
    /\ Cardinality(RefEmpties(board)) = 5


\* C4 as stated: on every 9-cell board with at least one empty cell ai_move
\* returns a position in 0..8 whose cell is empty.
C4_Original ==
    (calls # << >> /\ RefEmpties(calls[1].board) # {}) =>
        calls[1].move \in RefEmpties(calls[1].board)

\* C4 amended: on every 9-cell board on which check_winner returns None
\* ai_move returns a position in 0..8 whose cell is empty; on a board with a
\* complete line it returns None even when cells are empty.
C4_LegalMove ==
    calls # << >> =>
        IF check_winner(calls[1].board) = None
        THEN calls[1].move \in RefEmpties(calls[1].board)
        ELSE calls[1].move = NoMove

\* a search on a board that no alternating play reaches: four X, no O
C4_Witness ==
    /\ pc = "fn"
    /\ calls # << >>
    /\ check_winner(board) = None
    /\ Cardinality({i \in Positions : board[i] = "X"}) = 4
    /\ Cardinality({i \in Positions : board[i] = "O"}) = 0
    /\ ret \in RefEmpties(board)

\* C5: inside play() ai_move never returns None, because play() tests
\* check_winner before every turn and ai_move returns None only on a board
\* that is over; the fallback branch is never taken.
C5_NoFallback ==
    /\ ~fallback
    /\ \A i \in 1..Len(calls) :
          /\ check_winner(calls[i].board) = None
          /\ calls[i].move # NoMove

\* the AI has moved four times in one game
C5_Witness == pc = "loop" /\ ncalls = 4 /\ ret \in Positions /\ ~fallback

\* C6 as stated: when some empty cell completes a line for the AI, ai_move
\* returns a cell that completes a line for the AI.
C6_Original ==
    (JustSearched /\ \E p \in Positions : RefWins(board, ai, p)) =>
        RefWins(board, ai, ret)

\* C6 amended: when some empty cell completes a line for the AI, ai_move
\* returns the lowest-indexed empty cell after which the AI wins by force
\* (plain minimax value 1); that cell is not above the lowest cell that
\* completes a line, and it need not complete a line itself.
C6_ForcedWin ==
    (JustSearched /\ \E p \in Positions : RefWins(board, ai, p)) =>
        /\ ret = SetMin({p \in RefEmpties(board) :
                            PlainMinimax(Place(board, p, ai), ai, human, FALSE) = 1})
        /\ ret <= SetMin({p \in Positions : RefWins(board, ai, p)})

\* the AI could complete a line and ai_move returned such a cell
C6_Witness ==
    /\ JustSearched
    /\ \E p \in Positions : RefWins(board, ai, p)
    /\ RefWins(board, ai, ret)

\* the opponent threatens to complete a line and the AI cannot complete one
Threatened ==
    /\ JustSearched
    /\ \E p \in Positions : RefWins(board, human, p)
    /\ ~\E p \in Positions : RefWins(board, ai, p)

\* C7 as stated: when the opponent threatens to complete a line and the AI
\* cannot complete one, ai_move returns a cell the opponent needs.
C7_Original == Threatened => RefWins(board, human, ret)

\* C7 amended: when the opponent threatens to complete a line, the AI cannot
\* complete one and the board is not already lost for the AI (its plain
\* minimax value is at least 0), ai_move returns a cell the opponent needs.
C7_Block ==
    (Threatened /\ PlainMinimax(board, ai, human, TRUE) >= 0) =>
        RefWins(board, human, ret)

\* a threat was blocked on a board that is not lost
C7_Witness ==
    /\ Threatened
    /\ PlainMinimax(board, ai, human, TRUE) = 0
    /\ RefWins(board, human, ret)

\* the board ['', A, '', B, B, '', '', '', ''] with A the AI's mark
C8_Board == [EmptyBoard EXCEPT ![1] = ai, ![3] = human, ![4] = human]

\* C8 as stated: on that board ai_move returns position 3.
C8_Original == (JustSearched /\ board = C8_Board) => ret = 3

\* C8 amended: on that board ai_move returns position 0: position 3 is
\* occupied, the board is lost for A whatever it plays, and the first empty
\* cell is kept.
C8_ReturnsZero == (JustSearched /\ board = C8_Board) => ret = 0

C8_Witness == JustSearched /\ board = C8_Board /\ ret = 0

\* C9: check_winner agrees with the reference classification on every board:
\* a mark that has a complete line while the other has none, "Draw" when no
\* line is complete and no cell is empty, None when no line is complete and
\* a cell is empty.
C9_Evaluate ==
    result # Unset =>
        /\ \A m \in Marks :
              (RefHasLine(board, m) /\ ~RefHasLine(board, Other(m))) => result = m
        /\ (~RefHasLine(board, "X") /\ ~RefHasLine(board, "O") /\ RefFull(board))
              => result = "Draw"
        /\ (~RefHasLine(board, "X") /\ ~RefHasLine(board, "O") /\ ~RefFull(board))
              => result = None

\* a full board with a line for O only was evaluated
C9_Witness ==
    /\ pc = "fn"
    /\ result = "O"
    /\ RefFull(board)
    /\ RefHasLine(board, "O")
    /\ ~RefHasLine(board, "X")

\* C10: two consecutive ai_move calls with the same arguments and no
\* cache_clear in between return the same move, whatever earlier calls left
\* in the cache.
C10_Idempotent ==
    (Len(calls) = 2 /\ calls[1].board = calls[2].board
        /\ calls[1].ai = calls[2].ai /\ calls[1].human = calls[2].human)
    => calls[1].move = calls[2].move

\* the two calls came after an earlier search of an ancestor board
C10_Witness ==
    /\ pc = "alt"
    /\ ncalls = 3
    /\ calls[1].board = calls[2].board
    /\ calls[1].move \in Positions

----
\* the number of cells of b that hold mark
Count(b, mark) == Cardinality({i \in Positions : b[i] = mark})

\* C11: in every run of play(), replays included, the cache is cleared after
\* the marks and the starter are chosen and before the first ai_move of the
\* game: while the game loop runs and the AI has not placed a mark yet, the
\* marks and the starter are set and the cache is empty.
C11_ClearedBeforeFirstSearch ==
    (pc = "loop" /\ Count(board, ai) = 0)
        => /\ cache = EmptyCache
           /\ human \in Marks
           /\ ai = Other(human)
           /\ first \in {"me", "ai"}
           /\ current \in {"human", "ai"}

\* a replay has chosen marks and starter and stands before line 127 with the
\* cache the previous game filled
C11_Witness ==
    /\ pc = "clear"
    /\ cache # EmptyCache
    /\ human \in Marks
    /\ first = "ai"

----
\* the board a, h, _, _, _, a, _, _, _ , met twice below the empty board
C12_Board(a, h) == [i \in Positions |-> IF i \in {0, 5} THEN a ELSE IF i = 1 THEN h ELSE ""]

\* the (board, ai, human, maximizing) parts of the argument tuples in cache c
FourTuples(c) == {<<k[1], k[2], k[3], k[4]>> : k \in DOMAIN c}

\* C12 as stated: alpha and beta are not part of the key, a call that differs
\* from an earlier one in the window only returns the earlier result, so the
\* cache holds one result for each (board, ai, human, maximizing).
C12_Original == Cardinality(FourTuples(cache)) = Cardinality(DOMAIN cache)

\* C12: the key is the whole argument tuple, alpha and beta included.  Every
\* ai_move call is stored under (board, ai, human, TRUE, -999, 999); after
\* ai_move on the empty board the cache holds C12_Board as a minimizing node
\* under the windows (1, 999) and (0, 1) with different results, and a call on
\* that board with the window (-999, 999) is a miss: it adds an entry.
C12_KeyHoldsWindow ==
    /\ \A i \in 1..Len(calls) :
          LET root == <<calls[i].board, calls[i].ai, calls[i].human, TRUE, -999, 999>>
          IN  root \in DOMAIN cache /\ cache[root] = <<calls[i].score, calls[i].move>>
    /\ (pc = "loop" /\ ncalls = 1 /\ calls[1].board = EmptyBoard)
          => LET b == C12_Board(ai, human)
                 r == minimax_cached(cache, b, ai, human, FALSE, -999, 999)
             IN  /\ <<b, ai, human, FALSE, 1, 999>> \in DOMAIN cache
                 /\ <<b, ai, human, FALSE, 0, 1>> \in DOMAIN cache
                 /\ cache[<<b, ai, human, FALSE, 1, 999>>] = <<1, 2>>
                 /\ cache[<<b, ai, human, FALSE, 0, 1>>] = <<0, 4>>
                 /\ <<b, ai, human, FALSE, -999, 999>> \notin DOMAIN cache
                 /\ <<b, ai, human, FALSE, -999, 999>> \in DOMAIN r.cache

\* the AI began the game and ai_move has searched the empty board
C12_Witness ==
    /\ pc = "loop"
    /\ first = "ai"
    /\ ncalls = 1
    /\ calls[1].board = EmptyBoard
    /\ Cardinality(FourTuples(cache)) < Cardinality(DOMAIN cache)

----
\* what ai_move returns for the arguments of call record rec on an empty cache
ColdResult(rec) ==
    LET r == ai_search(EmptyCache, rec.board, rec.ai, rec.human)
    IN  <<r.value, r.move>>

\* ai_move has been called in the second game: calls[1] is a call of that game
SearchedInGame2 == pc = "game2" /\ calls # << >> /\ calls[1].ai = ai

\* C13 as stated, read before the first call, when the cache is empty: there
\* are a first game with AI mark a, a second game with the marks swapped and a
\* board of the second game such that ai_move, called on that board on the
\* cache the first game's search left, returns a result that differs from the
\* result of the same call on an empty cache.
C13_Original ==
    (pc = "game1" /\ ncalls = 0) =>
        \E a \in Marks :
            LET cold == [b \in OpeningBoards(a) |->
                            ColdResult([board |-> b, ai |-> Other(a), human |-> a])]
            IN  \E b1 \in OpeningBoards(Other(a)) :
                    LET left == ai_search(cache, b1, a, Other(a)).cache
                    IN  \E b2 \in OpeningBoards(a) :
                            LET r == ai_search(left, b2, Other(a), a)
                            IN  <<r.value, r.move>> # cold[b2]

\* C13: when the cache is not cleared between two games with the marks
\* swapped, every ai_move call of the second game returns the score and the
\* move that a search on an empty cache returns for its arguments.
C13_ReuseIsExact ==
    SearchedInGame2 => <<calls[1].score, calls[1].move>> = ColdResult(calls[1])

\* ai_move has been called for the second game, with the marks swapped, on
\* the cache the call of the first game filled and left uncleared, after a
\* human opening both times
C13_Witness ==
    /\ SearchedInGame2
    /\ Len(calls) = 2
    /\ calls[2].ai = calls[1].human
    /\ Count(calls[1].board, calls[1].human) = 1
    /\ Count(calls[2].board, calls[2].human) = 1
    /\ \E k \in DOMAIN cache : k[2] = calls[1].ai
    /\ \E k \in DOMAIN cache : k[2] = calls[2].ai

----
\* the plain minimax value, for side a, of each cell a can mark on board b
ChildValues(b, a, h) ==
    [p \in RefEmpties(b) |-> PlainMinimax(Place(b, p, a), a, h, FALSE)]

\* the lowest cell whose value is the highest of v
LowestBest(v) ==
    LET top == SetMax({v[p] : p \in DOMAIN v})
    IN  SetMin({p \in DOMAIN v : v[p] = top})

\* C14: tie-break by lowest index: on every board that is not over and has the
\* AI to move, won, drawn or lost for it, on a cold or a warm cache, ai_move
\* returns the lowest empty cell among the cells whose resulting position has
\* the highest game value; a later cell of equal value never replaces an
\* earlier one.
C14_LowestBest ==
    JustSearched => calls[1].move = LowestBest(ChildValues(board, ai, human))

\* ai_move was called on a board that is lost for the AI whatever it plays:
\* every cell has the value -1 and the lowest of four or more empty cells is
\* returned
C14_Witness ==
    /\ JustSearched
    /\ calls[1].score = -1
    /\ Cardinality(RefEmpties(board)) >= 4
    /\ \A p \in RefEmpties(board) : ChildValues(board, ai, human)[p] = -1
    /\ calls[1].move = SetMin(RefEmpties(board))

----
\* C15: ai_move never changes the caller's board: the search works on a list
\* of its own (work), made from the tuple of the board, and every placement
\* is undone before the next sibling, so that each loop iteration of the call
\* and of the calls below it ends with the list as it began (clean) and the
\* list equals the board of the call when the call returns.
C15_BoardKept ==
    \A i \in 1..Len(calls) :
        /\ calls[i].clean
        /\ calls[i].work = calls[i].board
        /\ (pc = "fn" => board = calls[i].board)

\* ai_move has searched a board with six empty cells on an empty cache and
\* returned a move
C15_Witness ==
    /\ pc = "fn"
    /\ ncalls = 1
    /\ Cardinality(RefEmpties(board)) = 6
    /\ calls[1].move \in RefEmpties(board)
    /\ calls[1].work = board
    /\ Cardinality(DOMAIN cache) > 6

----
\* the mark of the side that moves first in the present game of play()
StarterMark == IF first = "me" THEN human ELSE ai

\* C16: in play(), with A the mark of the side that moves first and B the
\* other mark, the board holds as many A as B or one A more, and a cell that
\* holds a mark does not change again during that game (the next game starts
\* with PlayAgain, from pc = "again").
C16_MarkCount ==
    /\ [](first \in {"me", "ai"} =>
            Count(board, StarterMark) - Count(board, Other(StarterMark)) \in {0, 1})
    /\ [][\A i \in Positions :
            (board[i] # "" /\ pc # "again") => board'[i] = board[i]]_vars

\* a game the AI began, with three AI marks and two human marks on the board
C16_Witness ==
    /\ pc = "loop"
    /\ first = "ai"
    /\ Count(board, ai) = 3
    /\ Count(board, human) = 2

----
\* check_winner scanning the lines in the order given by the permutation perm
\* of 1..8
check_lines_in(b, perm, k) ==
    LET scan[j \in 0..8] ==
            IF j = 0 THEN "no line"
            ELSE IF scan[j - 1] # "no line" THEN scan[j - 1]
            ELSE LET l == WINNING_LINES[perm[j]]
                 IN  IF b[l[1]] = b[l[2]] /\ b[l[2]] = b[l[3]] /\ b[l[1]] # ""
                     THEN b[l[1]] ELSE "no line"
    IN  scan[k]

\* the scan orders tried: as declared, reversed, diagonals first, columns first
ScanOrders ==
    { <<1, 2, 3, 4, 5, 6, 7, 8>>, <<8, 7, 6, 5, 4, 3, 2, 1>>,
      <<7, 8, 1, 2, 3, 4, 5, 6>>, <<4, 5, 6, 1, 2, 3, 7, 8>> }

\* C17: on every board of play() at most one mark has a complete line, so
\* the order in which check_winner scans the lines does not change its
\* result: the mark it returns is the only mark with a line, and a scan in
\* another order finds the same mark.
C17_OneWinner ==
    /\ ~(RefHasLine(board, "X") /\ RefHasLine(board, "O"))
    /\ \A mark \in Marks : RefHasLine(board, mark) <=> check_winner(board) = mark
    /\ \A perm \in ScanOrders :
          LET found == check_lines_in(board, perm, 8)
          IN  IF found = "no line" THEN check_winner(board) \notin Marks
              ELSE check_winner(board) = found

\* a game the AI has won while the human held two cells of a line whose
\* third cell is empty
C17_Witness ==
    /\ pc = "again"
    /\ result = ai
    /\ RefHasLine(board, ai)
    /\ \E p \in Positions : RefWins(board, human, p)

----
\* the side whose turn it is when the game began with first and the board is b
SideToMove(b) ==
    IF Count(b, "X") = Count(b, "O")
    THEN (IF first = "me" THEN "human" ELSE "ai")
    ELSE (IF first = "me" THEN "ai" ELSE "human")

\* the step marks exactly one empty cell, with mark
PlacesOne(mark) ==
    \E i \in Positions :
        /\ board[i] = ""
        /\ board' = Place(board, i, mark)

\* C18: in play() the turns alternate from the chosen starter; each turn marks
\* exactly one empty cell, on a board that is not over, and passes the turn;
\* while the board is not over a legal move exists for the side to move, so
\* with at most nine cells to mark the loop ends after at most nine
\* placements, when the human supplies legal moves; it ends with check_winner
\* returning a mark or 'Draw', and no cell is marked on a board that is over.
C18_Terminates ==
    /\ [](pc = "loop" =>
            /\ current = SideToMove(board)
            /\ check_winner(board) = None => RefEmpties(board) # {})
    /\ [](pc = "again" =>
            /\ result \in Marks \cup {"Draw"}
            /\ result = check_winner(board)
            /\ Count(board, "X") + Count(board, "O") <= 9)
    /\ [][(pc = "loop" /\ board' # board) =>
            /\ check_winner(board) = None
            /\ PlacesOne(IF current = "ai" THEN ai ELSE human)
            /\ Cardinality(RefEmpties(board')) = Cardinality(RefEmpties(board)) - 1
            /\ current' # current
            /\ pc' = "loop"]_vars
    /\ [][(pc = "loop" /\ check_winner(board) # None) =>
            (board' = board /\ pc' = "again")]_vars

\* a game the human began that ended in a draw after nine placements
C18_Witness ==
    /\ pc = "again"
    /\ first = "me"
    /\ result = "Draw"
    /\ RefFull(board)
    /\ Count(board, human) = 5

----
\* the exact game value of board b for the AI of play() when side is to move
GameValue(b, side) == PlainMinimax(b, ai, human, side = "ai")

\* C19 as stated, in its finite form: once the value is 1 the game ends with
\* the AI's mark winning, so play() is never left (pc = "exit") on a board of
\* value 1 that the AI has not won.
C19_Original ==
    (pc = "exit" /\ human \in Marks /\ GameValue(board, current) = 1)
        => check_winner(board) = ai

\* C19: along every game of play() the exact game value of the board for the
\* AI is left unchanged by each AI move and is not lowered by a human move;
\* once it is 1 it stays 1 on every step of the game unless the human quits,
\* and a game that ends on a board of value 1 ends with the AI's mark winning.
C19_ValueKept ==
    /\ [][(pc = "loop" /\ board' # board) =>
            LET before == GameValue(board, current)
                after == GameValue(board', current')
            IN  /\ IF current = "ai" THEN after = before ELSE after >= before
                /\ before = 1 => (after = 1 /\ pc' = "loop")]_vars
    /\ [](pc = "again" /\ GameValue(board, current) = 1 => result = ai)

\* the AI has won a game that was a forced win for it before its last move but
\* one
C19_Witness ==
    /\ pc = "again"
    /\ result = ai
    /\ Len(calls) = 2
    /\ calls[2].score = 1
    /\ calls[1].score = 1

----
\* the search of tittac.py:41-76 with the decorator of line 39 taken away:
\* the same body and loops, every call computed, nothing stored
RECURSIVE Uncached(_, _, _, _, _, _)
RECURSIVE UncachedLoop(_, _, _, _, _, _, _, _, _, _)

UncachedLoop(b, a, h, maximizing, moves, k, value, best_move, alpha, beta) ==
    IF k > Len(moves) THEN <<value, best_move>>
    ELSE LET m == moves[k]
             r == Uncached(Place(b, m, IF maximizing THEN a ELSE h), a, h,
                           ~maximizing, alpha, beta)
             better == IF maximizing THEN r[1] > value ELSE r[1] < value
             value2 == IF better THEN r[1] ELSE value
             best2 == IF better THEN m ELSE best_move
             alpha2 == IF maximizing THEN Max(alpha, value2) ELSE alpha
             beta2 == IF maximizing THEN beta ELSE Min(beta, value2)
         IN  IF alpha2 >= beta2 THEN <<value2, best2>>
             ELSE UncachedLoop(b, a, h, maximizing, moves, k + 1, value2, best2,
                               alpha2, beta2)

Uncached(b, a, h, maximizing, alpha, beta) ==
    LET res == check_winner(b)
    IN  IF res = a THEN <<1, NoMove>>
        ELSE IF res = h THEN <<-1, NoMove>>
        ELSE IF res = "Draw" THEN <<0, NoMove>>
        ELSE UncachedLoop(b, a, h, maximizing, available_moves(b), 1,
                          IF maximizing THEN -999 ELSE 999, NoMove, alpha, beta)

\* C20: memoization is transparent: whatever the cache holds from earlier
\* calls, made under either mark assignment and with or without cache_clear
\* in between, every call of minimax_cached returns the score and the move of
\* the same search run with no cache.  Every call returns what the cache holds
\* for its argument tuple afterwards, so the claim is that every entry of the
\* cache, and the result of every ai_move call, is the uncached result.
C20_Transparent ==
    /\ \A key \in DOMAIN cache :
          cache[key] = Uncached(key[1], key[2], key[3], key[4], key[5], key[6])
    /\ \A i \in 1..Len(calls) :
          <<calls[i].score, calls[i].move>>
              = Uncached(calls[i].board, calls[i].ai, calls[i].human, TRUE, -999, 999)

\* the cache holds entries made for both mark assignments, and the last call
\* was answered on it
C20_Witness ==
    /\ pc = "self"
    /\ ncalls >= 3
    /\ \E k1, k2 \in DOMAIN cache : k1[2] = "X" /\ k2[2] = "O"
    /\ calls[1].move \in Positions

====
